---- MODULE Spec2Model ----
(***************************************************************************)
(* State-machine model of src/main/src/main.rs: one run of main() over a   *)
(* decoded RGB8 image.  The run dispatches on the command-line flags to    *)
(* threshold mode (grayscale check, luma cut-off, save, return), or to the *)
(* optional in-place Floyd-Steinberg dither / resize+blur pass followed by *)
(* the Gaussian noise loop and the save of the noisy image.                *)
(*                                                                         *)
(* Numbers.  Pixels are u8 triples.  The dither arithmetic is f32; it is   *)
(* modelled in fixed point with 64 units per intensity step.  For the      *)
(* levels in LevelsSet the step 255/(levels-1) and every product and sum   *)
(* the loop forms are multiples of 1/64 below 2^9, hence exact in f32, and *)
(* old/step is never within 1/510 of a half-integer, so the f32 quotient   *)
(* rounds like the exact one.  levels = 1 makes the step +inf and every    *)
(* quantised value NaN; NaN is carried as a flag.  The noise arithmetic is *)
(* f64 and is modelled in halves of an intensity step.                     *)
(***************************************************************************)
EXTENDS Integers, Sequences, FiniteSets, TLC

VARIABLES args, width, height, decoded, img, output_img, pc, cursor,
          is_grayscale, result, saved, stages, touched

vars == <<args, width, height, decoded, img, output_img, pc, cursor,
          is_grayscale, result, saved, stages, touched>>

(***************************************************************************)
(* Bounds of the model and constants of the program.                       *)
(***************************************************************************)
\* Magnitude (in halves) of the small standard-normal draws the model tries.
NoiseMag == 3
\* Magnitude (in halves) of the large draws, which drive a channel past 0 / 255.
NoiseHuge == 600

\* let tolerance = 30
Tolerance == 30
\* Radix of the two limbs a u32 is held in (x.wrapping_sub(1) is u32 arithmetic).
Limb == 65536

Black == <<0, 0, 0>>
White == <<255, 255, 255>>

(***************************************************************************)
(* Inputs.                                                                 *)
(***************************************************************************)
\* Pixels the input grids are built from: black, white and two grays, the
\* two sides of the tolerance boundary (|r-g| = 30 and 31) and a pixel only
\* |b-r| gives away.  Their lumas are 0, 255, 200, 128, 108, 109 and 116.
Palette == { <<0, 0, 0>>, <<255, 255, 255>>, <<200, 200, 200>>,
             <<128, 128, 128>>, <<130, 100, 100>>, <<131, 100, 100>>,
             <<100, 120, 140>> }

\* Dimensions <<width, height>> of the input grids.
SmallSizes == { <<1, 1>>, <<2, 1>>, <<1, 2>>, <<2, 2>> }
WideSizes == { <<3, 2>> }
Sizes == SmallSizes \cup WideSizes

Cells(w, h) == (0 .. (w - 1)) \X (0 .. (h - 1))

Uniform(w, h, p) == [c \in Cells(w, h) |-> p]

\* Grids of one pixel value with at most one cell holding another.
OneOdd(w, h) ==
    { [Uniform(w, h, p) EXCEPT ![c] = q] :
        <<p, q, c>> \in Palette \X Palette \X Cells(w, h) }

InputGrids(w, h) ==
    IF <<w, h>> \in SmallSizes THEN OneOdd(w, h)
    ELSE { Uniform(w, h, p) : p \in Palette }

Thresholds == { 0, 108, 109, 116, 128, 200, 255 }
LevelsSet == { 0, 1, 2, 3, 4 }
SigmaSet == { -1, 0, 1 }

\* Draws of the standard normal for the three channels of one pixel, in halves.
ZTriples == { <<-NoiseMag, NoiseMag - 2, 0>>, <<NoiseHuge, -NoiseHuge, 2>> }

\* struct Args with its default_value_t values.
DefaultArgs ==
    [ sigma |-> 30, aggressive |-> FALSE, destructive |-> FALSE, levels |-> 4,
      threshold_mode |-> FALSE, threshold |-> 128, force_bw |-> FALSE ]

ThresholdRequests ==
    { [DefaultArgs EXCEPT !.threshold_mode = TRUE, !.force_bw = ft[1],
                          !.threshold = ft[2]] : ft \in BOOLEAN \X Thresholds }

DitherRequests ==
    { [DefaultArgs EXCEPT !.destructive = TRUE, !.levels = ls[1],
                          !.sigma = ls[2]] : ls \in LevelsSet \X SigmaSet }

AggressiveRequests ==
    { [DefaultArgs EXCEPT !.aggressive = TRUE, !.sigma = s] : s \in SigmaSet }

NoiseRequests == { [DefaultArgs EXCEPT !.sigma = s] : s \in SigmaSet }

Requests ==
    ThresholdRequests \cup DitherRequests \cup AggressiveRequests \cup NoiseRequests

(***************************************************************************)
(* Helpers.                                                                *)
(***************************************************************************)
Abs(a) == IF a < 0 THEN -a ELSE a

Clamp(v, lo, hi) == IF v < lo THEN lo ELSE IF v > hi THEN hi ELSE v

NumCells == width * height

\* Row-major position of the k-th pixel of pixels(), pixels_mut(),
\* enumerate_pixels() and of the nested y / x loops.
CellAt(k) == <<k % width, k \div width>>

Visited(k) == { CellAt(i) : i \in 0 .. (k - 1) }

(***************************************************************************)
(* Threshold mode: grayscale detection and the luma cut-off.               *)
(***************************************************************************)
\* Mutant: the |b - r| comparison is left out.
PixelIsColoredNoBR(p) ==
    \/ Abs(p[1] - p[2]) > Tolerance
    \/ Abs(p[2] - p[3]) > Tolerance

\* (r - g).abs() > tolerance || (g - b).abs() > tolerance || (b - r).abs() > tolerance
\* on i16 values, which hold every difference of two u8.
PixelIsColored(p) ==
    \/ Abs(p[1] - p[2]) > Tolerance
    \/ Abs(p[2] - p[3]) > Tolerance
    \/ Abs(p[3] - p[1]) > Tolerance

\* (r * 299 + g * 587 + b * 114) / 1000 on u32: at most 255000, no overflow.
Luma(p) == (p[1] * 299 + p[2] * 587 + p[3] * 114) \div 1000

\* Mutant: the comparison is not strict.
ThresholdPixelGe(p, t) == IF Luma(p) >= t THEN White ELSE Black

\* if luma > threshold as u32 { white } else { black }
ThresholdPixel(p, t) == IF Luma(p) > t THEN White ELSE Black

(***************************************************************************)
(* Destructive mode: Floyd-Steinberg dithering.                            *)
(***************************************************************************)
\* levels - 1.0 = 0.0 makes step = 255.0 / 0.0 = +inf, old / step = 0 and
\* round(0) * inf = NaN.
QuantIsNaN(levels) == levels = 1

\* step = 255.0 / (levels - 1.0), in 64ths (levels # 1).
Step64(levels) == (255 * 64) \div (levels - 1)

\* f32::round of a / b: to the nearest integer, halves away from zero.
RoundHalfAway(a, b) ==
    LET s == IF (a < 0) = (b < 0) THEN 1 ELSE -1
    IN  s * ((2 * Abs(a) + Abs(b)) \div (2 * Abs(b)))

\* new = (old / step).round() * step, in 64ths (levels # 1).
Quant64(old, levels) ==
    RoundHalfAway(old * 64, Step64(levels)) * Step64(levels)

\* v.clamp(0.0, 255.0) as u8 of a value in 64ths: clamp keeps NaN, the cast
\* sends NaN to 0 and drops the fraction of anything else.
ToU8(nan, v64) == IF nan THEN 0 ELSE Clamp(v64, 0, 255 * 64) \div 64

\* Mutant: x - 1 wraps around the row instead of the u32 range.
WrapSubRow(x) == <<0, (x + width - 1) % width>>

\* x.wrapping_sub(1) on u32.  A u32 is held as two 16-bit limbs <<high, low>>.
WrapSub1(x) ==
    IF x % Limb # 0 THEN <<x \div Limb, (x % Limb) - 1>>
    ELSE IF x \div Limb # 0 THEN <<(x \div Limb) - 1, Limb - 1>>
    ELSE <<Limb - 1, Limb - 1>>

\* A u32 that did not wrap, as limbs.
U32(x) == <<x \div Limb, x % Limb>>

\* Mutant: the 3/16 and 5/16 weights are swapped.
NeighboursSwapped(x, y) ==
    << <<U32(x + 1), y, 7>>, <<WrapSub1(x), y + 1, 5>>,
       <<U32(x), y + 1, 3>>, <<U32(x + 1), y + 1, 1>> >>

\* The four distribute(...) calls, in order: <<x, y, sixteenths of the error>>.
Neighbours(x, y) ==
    << <<U32(x + 1), y, 7>>, <<WrapSub1(x), y + 1, 3>>,
       <<U32(x), y + 1, 5>>, <<U32(x + 1), y + 1, 1>> >>

\* The bounds check of the distribute closure: x < width && y < height.
InGrid(xl, y) == xl[1] = 0 /\ xl[2] < width /\ y < height

\* distribute(img, x, y, factor): err is the channel-wise error in 64ths.
Distribute(g, n, nan, err) ==
    IF InGrid(n[1], n[2])
    THEN [g EXCEPT ![<<n[1][2], n[2]>>] =
            [ch \in 1 .. 3 |-> ToU8(nan, @[ch] * 64 + (err[ch] * n[3]) \div 16)]]
    ELSE g

RECURSIVE DistributeAll(_, _, _, _)
DistributeAll(g, ns, nan, err) ==
    IF ns = <<>> THEN g
    ELSE DistributeAll(Distribute(g, Head(ns), nan, err), Tail(ns), nan, err)

\* One iteration of the y / x loops at (x, y): quantise the current value,
\* store it, then distribute the error.
DitherAt(g, x, y, levels) ==
    LET old == g[<<x, y>>]
        nan == QuantIsNaN(levels)
        new == [ch \in 1 .. 3 |-> IF nan THEN 0 ELSE Quant64(old[ch], levels)]
        err == [ch \in 1 .. 3 |-> old[ch] * 64 - new[ch]]
        g0  == [g EXCEPT ![<<x, y>>] = [ch \in 1 .. 3 |-> ToU8(nan, new[ch])]]
    IN  DistributeAll(g0, Neighbours(x, y), nan, err)

\* The cells put_pixel is called on during the iteration at (x, y).
TouchedAt(x, y) ==
    { <<x, y>> } \cup
    { <<Neighbours(x, y)[i][1][2], Neighbours(x, y)[i][2]>> :
        i \in { j \in 1 .. 4 : InGrid(Neighbours(x, y)[j][1], Neighbours(x, y)[j][2]) } }

(***************************************************************************)
(* Noise.                                                                  *)
(***************************************************************************)
\* Mutant: the draw is not scaled by sigma.
NoiseUnscaled(sigma, z) == z

\* normal.sample(): mean 0.0 + std_dev * (standard normal draw), in halves.
NoiseSample(sigma, z) == sigma * z

\* (c + noise).clamp(0.0, 255.0) as u8, noise in halves.
NoisyChannel(c, noise) == Clamp(2 * c + noise, 0, 2 * 255) \div 2

NoisyPixel(p, sigma, zs) ==
    [ch \in 1 .. 3 |-> NoisyChannel(p[ch], NoiseSample(sigma, zs[ch]))]

\* The resize / resize / blur of the image crate is opaque here: any grid of
\* the original dimensions may come back; the model tries the uniform ones.
DegradeOutcomes == { Uniform(width, height, p) : p \in { <<128, 128, 128>>, <<131, 100, 100>> } }

(***************************************************************************)
(* The run.                                                                *)
(***************************************************************************)
Init ==
    \E a \in Requests, sz \in Sizes :
      \E g \in InputGrids(sz[1], sz[2]) :
        /\ args = a
        /\ width = sz[1]
        /\ height = sz[2]
        /\ decoded = g
        /\ img = g
        /\ output_img = Uniform(sz[1], sz[2], Black)
        /\ pc = "start"
        /\ cursor = 0
        /\ is_grayscale = TRUE
        /\ result = "running"
        /\ saved = "none"
        /\ stages = <<>>
        /\ touched = {}

\* if args.threshold_mode, with !args.force_bw: the detection loop starts.
BeginClassify ==
    /\ pc = "start"
    /\ args.threshold_mode /\ ~args.force_bw
    /\ pc' = "classify"
    /\ stages' = Append(stages, "Classifier")
    /\ UNCHANGED <<args, width, height, decoded, img, output_img, cursor,
                   is_grayscale, result, saved, touched>>

\* One iteration of for pixel in img.pixels(): break on the first coloured pixel.
ClassifyPixel ==
    /\ pc = "classify"
    /\ cursor < NumCells
    /\ IF PixelIsColored(img[CellAt(cursor)])
       THEN /\ is_grayscale' = FALSE
            /\ pc' = "checked"
            /\ UNCHANGED cursor
       ELSE /\ cursor' = cursor + 1
            /\ pc' = IF cursor + 1 = NumCells THEN "checked" ELSE "classify"
            /\ UNCHANGED is_grayscale
    /\ UNCHANGED <<args, width, height, decoded, img, output_img, result,
                   saved, stages, touched>>

\* Mutant: a coloured image is thresholded all the same.
RejectColorIgnored ==
    /\ pc = "checked"
    /\ ~is_grayscale
    /\ pc' = "threshold"
    /\ cursor' = 0
    /\ stages' = Append(stages, "Thresholder")
    /\ UNCHANGED <<args, width, height, decoded, img, output_img,
                   is_grayscale, result, saved, touched>>

\* if !is_grayscale { return Err("Image appears to be color. ...") }
RejectColor ==
    /\ pc = "checked"
    /\ ~is_grayscale
    /\ pc' = "failed"
    /\ result' = "NotGrayscale"
    /\ UNCHANGED <<args, width, height, decoded, img, output_img, cursor,
                   is_grayscale, saved, stages, touched>>

\* The threshold loop starts: after a passed check, or at once with force_bw.
BeginThreshold ==
    /\ \/ pc = "checked" /\ is_grayscale
       \/ pc = "start" /\ args.threshold_mode /\ args.force_bw
    /\ pc' = "threshold"
    /\ cursor' = 0
    /\ stages' = Append(stages, "Thresholder")
    /\ UNCHANGED <<args, width, height, decoded, img, output_img,
                   is_grayscale, result, saved, touched>>

\* One iteration of for pixel in img.pixels_mut().
ThresholdStep ==
    /\ pc = "threshold"
    /\ cursor < NumCells
    /\ img' = [img EXCEPT ![CellAt(cursor)] = ThresholdPixel(@, args.threshold)]
    /\ cursor' = cursor + 1
    /\ pc' = IF cursor + 1 = NumCells THEN "save_img" ELSE "threshold"
    /\ UNCHANGED <<args, width, height, decoded, output_img, is_grayscale,
                   result, saved, stages, touched>>

\* img.save(&args.output)?; return Ok(()).  The encoder and the file system
\* are outside the model: the save is taken to succeed.
SaveBW ==
    /\ pc = "save_img"
    /\ saved' = "img"
    /\ result' = "Ok"
    /\ pc' = "done"
    /\ UNCHANGED <<args, width, height, decoded, img, output_img, cursor,
                   is_grayscale, stages, touched>>

\* if args.destructive: the y / x loops start.
BeginDither ==
    /\ pc = "start"
    /\ ~args.threshold_mode /\ args.destructive
    /\ pc' = "dither"
    /\ stages' = Append(stages, "Ditherer")
    /\ UNCHANGED <<args, width, height, decoded, img, output_img, cursor,
                   is_grayscale, result, saved, touched>>

\* Mutant: the destructive branch saves and returns like threshold mode.
AfterDitherSave == "save_img"

\* The destructive branch has no return: control falls through to the noise code.
AfterDither == "normal"

\* One iteration of the y / x loops.
DitherStep ==
    /\ pc = "dither"
    /\ cursor < NumCells
    /\ img' = DitherAt(img, CellAt(cursor)[1], CellAt(cursor)[2], args.levels)
    /\ touched' = TouchedAt(CellAt(cursor)[1], CellAt(cursor)[2])
    /\ cursor' = cursor + 1
    /\ pc' = IF cursor + 1 = NumCells THEN AfterDither ELSE "dither"
    /\ UNCHANGED <<args, width, height, decoded, output_img, is_grayscale,
                   result, saved, stages>>

\* else if args.aggressive: resize down, resize up, blur.
Degrade ==
    /\ pc = "start"
    /\ ~args.threshold_mode /\ ~args.destructive /\ args.aggressive
    /\ img' \in DegradeOutcomes
    /\ pc' = "normal"
    /\ stages' = Append(stages, "Degrader")
    /\ UNCHANGED <<args, width, height, decoded, output_img, cursor,
                   is_grayscale, result, saved, touched>>

\* Neither threshold, destructive nor aggressive: straight to the noise code.
PlainNoise ==
    /\ pc = "start"
    /\ ~args.threshold_mode /\ ~args.destructive /\ ~args.aggressive
    /\ pc' = "normal"
    /\ UNCHANGED <<args, width, height, decoded, img, output_img, cursor,
                   is_grayscale, result, saved, stages, touched>>

\* Normal::new(0.0, args.sigma)? returning Err.  rand_distr is not part of the
\* sources and its release is not pinned by them: releases before 0.4 refuse
\* every negative standard deviation, later ones only a non-finite one.  For
\* a negative sigma both outcomes are therefore possible.
NormalRejects ==
    /\ pc = "normal"
    /\ args.sigma < 0
    /\ pc' = "failed"
    /\ result' = "InvalidSigma"
    /\ UNCHANGED <<args, width, height, decoded, img, output_img, cursor,
                   is_grayscale, saved, stages, touched>>

\* Normal::new(0.0, args.sigma)? returning Ok: the noise loop starts.
NormalAccepts ==
    /\ pc = "normal"
    /\ pc' = "noise"
    /\ cursor' = 0
    /\ stages' = Append(stages, "NoiseInjector")
    /\ UNCHANGED <<args, width, height, decoded, img, output_img,
                   is_grayscale, result, saved, touched>>

\* One iteration of for (x, y, pixel) in img.enumerate_pixels().
NoiseStep ==
    /\ pc = "noise"
    /\ cursor < NumCells
    /\ \E zs \in ZTriples :
         output_img' = [output_img EXCEPT ![CellAt(cursor)] =
                           NoisyPixel(img[CellAt(cursor)], args.sigma, zs)]
    /\ cursor' = cursor + 1
    /\ pc' = IF cursor + 1 = NumCells THEN "save_output" ELSE "noise"
    /\ UNCHANGED <<args, width, height, decoded, img, is_grayscale, result,
                   saved, stages, touched>>

\* output_img.save(&args.output)?; Ok(()), the save taken to succeed.
SaveNoisy ==
    /\ pc = "save_output"
    /\ saved' = "output_img"
    /\ result' = "Ok"
    /\ pc' = "done"
    /\ UNCHANGED <<args, width, height, decoded, img, output_img, cursor,
                   is_grayscale, stages, touched>>

Next ==
    \/ BeginClassify
    \/ ClassifyPixel
    \/ RejectColor
    \/ BeginThreshold
    \/ ThresholdStep
    \/ SaveBW
    \/ BeginDither
    \/ DitherStep
    \/ Degrade
    \/ PlainNoise
    \/ NormalRejects
    \/ NormalAccepts
    \/ NoiseStep
    \/ SaveNoisy

Spec == Init /\ [][Next]_vars

\* The grid the run wrote to the output path, when it wrote one.
SavedGrid == IF saved = "img" THEN img ELSE output_img

(***************************************************************************)
(* Properties.                                                             *)
(***************************************************************************)
ZeroGrid == Uniform(width, height, Black)

Terminated == pc \in { "done", "failed" }

\* C1: when thresholding runs (force_bw set, or the grid classified as
\* grayscale), every pixel is replaced, independently of the others, by white
\* if (299 r + 587 g + 114 b) div 1000 > threshold and by black otherwise, so a
\* pixel whose luma equals the threshold becomes black; the pixels the loop
\* has not reached yet still hold their decoded value.
C1_ThresholdPerPixel ==
    args.threshold_mode =>
      /\ pc \in { "threshold", "save_img", "done" } =>
           \A k \in 0 .. (NumCells - 1) :
             LET p == decoded[CellAt(k)]
                 l == (299 * p[1] + 587 * p[2] + 114 * p[3]) \div 1000
             IN  img[CellAt(k)] =
                   IF k >= cursor THEN p
                   ELSE IF l > args.threshold THEN White ELSE Black
      /\ ( /\ Terminated
           /\ \/ args.force_bw
              \/ \A c \in DOMAIN decoded : ~PixelIsColored(decoded[c]) )
         => pc = "done" /\ saved = "img" /\ "Thresholder" = stages[Len(stages)]

C1_Witness ==
    /\ pc = "done"
    /\ args.threshold_mode
    /\ \E c \in DOMAIN decoded :
         /\ Luma(decoded[c]) = args.threshold
         /\ img[c] = Black
    /\ \E c \in DOMAIN decoded : img[c] = White

\* C2: in threshold mode without force_bw, a grid the classifier (tolerance
\* 30) finds coloured is never modified and never saved, the threshold loop
\* is never entered, and the run ends with the NotGrayscale rejection.
C2_ColoredRejected ==
    ( /\ args.threshold_mode
      /\ ~args.force_bw
      /\ \E c \in DOMAIN decoded :
           \/ Abs(decoded[c][1] - decoded[c][2]) > 30
           \/ Abs(decoded[c][2] - decoded[c][3]) > 30
           \/ Abs(decoded[c][3] - decoded[c][1]) > 30 )
    => /\ img = decoded
       /\ output_img = ZeroGrid
       /\ saved = "none"
       /\ pc \in { "start", "classify", "checked", "failed" }
       /\ pc = "checked" => ~is_grayscale
       /\ pc = "failed" => result = "NotGrayscale"

C2_Witness ==
    /\ pc = "failed"
    /\ result = "NotGrayscale"
    /\ args.threshold_mode /\ ~args.force_bw
    /\ cursor > 0
    /\ img = decoded
    /\ saved = "none"

\* The pipelines of a completed run, by mode.
IsThresholdRun == args.threshold_mode
IsDitherRun == ~args.threshold_mode /\ args.destructive
IsDegradeRun == ~args.threshold_mode /\ ~args.destructive /\ args.aggressive
IsPlainRun == ~args.threshold_mode /\ ~args.destructive /\ ~args.aggressive

\* Every pixel of the saved noisy image is the pixel of img with some noise
\* draw added.
OutputIsNoised ==
    /\ saved = "output_img"
    /\ \A c \in DOMAIN img :
         \E zs \in ZTriples : output_img[c] = NoisyPixel(img[c], args.sigma, zs)

ValidArguments == args.levels >= 2 /\ args.sigma >= 0

LevelAlphabet(N) ==
    { (2 * k * 255 + (N - 1)) \div (2 * (N - 1)) : k \in 0 .. (N - 1) }

DitherPassOver == IsDitherRun /\ pc \notin { "start", "dither" }

\* C4: after the dithering pass with levels = N >= 2, every channel of every
\* pixel is a member of { round(k * 255 / (N - 1)) : k = 0 .. N-1 } (here for
\* a valid sigma).
C4_Original ==
    (DitherPassOver /\ ValidArguments) =>
      \A c \in DOMAIN img : \A ch \in 1 .. 3 :
        img[c][ch] \in LevelAlphabet(args.levels)

\* C5: dithering with levels < 2 fails with InvalidArgument before any pixel
\* is mutated: no dithering step is executed and nothing is saved (here for
\* a valid sigma).
C5_Original ==
    (IsDitherRun /\ args.levels < 2 /\ args.sigma >= 0) =>
      /\ img = decoded
      /\ saved = "none"
      /\ pc = "dither" => cursor = 0
      /\ Terminated => result = "InvalidArgument"

\* C6: a run with sigma < 0 fails with an invalid-argument error raised before
\* any mutation: no dithering, resize/blur or noise write has been applied
\* when the error is returned, and nothing is saved (here for the destructive
\* mode with valid levels).
C6_Original ==
    (IsDitherRun /\ args.levels >= 2 /\ args.sigma < 0) =>
      /\ saved = "none"
      /\ Terminated =>
           /\ result = "InvalidSigma"
           /\ img = decoded
           /\ output_img = ZeroGrid

Gray(v) == <<v, v, v>>

Grid2x2(a, b, c, d) ==
    [cell \in Cells(2, 2) |->
        IF cell = <<0, 0>> THEN Gray(a)
        ELSE IF cell = <<1, 0>> THEN Gray(b)
        ELSE IF cell = <<0, 1>> THEN Gray(c)
        ELSE Gray(d)]

\* C7: dithering is an in-place row-major pass quantising each pixel from its
\* current value: on the 2x2 grid of 200s with levels = 2, (0,0) becomes 255
\* with error -55, whose 7/16, 5/16 and 1/16 shares reach (1,0), (0,1) and
\* (1,1) before they are quantised, and every run goes through the same
\* hand-computed grids and ends with the same one.
C7_DitherScenario ==
    (IsDitherRun /\ args.levels = 2 /\ decoded = Grid2x2(200, 200, 200, 200)) =>
      /\ (pc = "dither" /\ cursor = 0) => img = Grid2x2(200, 200, 200, 200)
      /\ (pc = "dither" /\ cursor = 1) => img = Grid2x2(255, 175, 182, 196)
      /\ (pc = "dither" /\ cursor = 2) => img = Grid2x2(255, 255, 167, 171)
      /\ (pc = "dither" /\ cursor = 3) => img = Grid2x2(255, 255, 255, 132)
      /\ pc \notin { "start", "dither" } => img = Grid2x2(255, 255, 255, 255)

C7_Witness ==
    /\ IsDitherRun
    /\ args.levels = 2
    /\ decoded = Grid2x2(200, 200, 200, 200)
    /\ pc = "normal"
    /\ img = Grid2x2(255, 255, 255, 255)

\* C8: the classification is "grayscale" iff every pixel has |r-g|, |g-b| and
\* |b-r| within the tolerance, wherever the first violating pixel lies, and
\* the scan does not modify the grid.
C8_ClassifierExact ==
    /\ pc \in { "classify", "checked" } => img = decoded
    /\ pc = "checked" =>
         ( is_grayscale <=>
             \A c \in DOMAIN decoded :
               /\ Abs(decoded[c][1] - decoded[c][2]) <= Tolerance
               /\ Abs(decoded[c][2] - decoded[c][3]) <= Tolerance
               /\ Abs(decoded[c][3] - decoded[c][1]) <= Tolerance )

C8_Witness ==
    /\ pc = "checked"
    /\ ~is_grayscale
    /\ cursor = NumCells - 1
    /\ cursor > 0
    /\ Abs(decoded[CellAt(cursor)][1] - decoded[CellAt(cursor)][2]) = Tolerance + 1
    /\ img = decoded

\* C9: noise injection with sigma = 0 is the identity: the output grid has
\* the dimensions of the input grid and every channel equals the input's.
C9_ZeroSigmaIdentity ==
    (~args.threshold_mode /\ args.sigma = 0) =>
      /\ pc = "noise" =>
           \A k \in 0 .. (cursor - 1) : output_img[CellAt(k)] = img[CellAt(k)]
      /\ pc \in { "save_output", "done" } =>
           /\ DOMAIN output_img = DOMAIN img
           /\ \A c \in DOMAIN img : \A ch \in 1 .. 3 : output_img[c][ch] = img[c][ch]

C9_Witness ==
    /\ pc = "done"
    /\ IsPlainRun
    /\ args.sigma = 0
    /\ saved = "output_img"
    /\ output_img = decoded
    /\ output_img # ZeroGrid

\* The cells the iteration at (x, y) may write.
AllowedAt(x, y) ==
    { <<x, y>> } \cup
    ( { <<x + 1, y>>, <<x - 1, y + 1>>, <<x, y + 1>>, <<x + 1, y + 1>> }
      \cap Cells(width, height) )

\* C10: while the pixel at (x, y) is dithered, the only cells written are
\* (x, y) and those of (x+1, y), (x-1, y+1), (x, y+1), (x+1, y+1) inside the
\* grid; a neighbour outside it, x - 1 at x = 0 included, is skipped and not
\* wrapped onto another cell, so a visited pixel is never modified again.
C10_DitherWrites ==
    [][ pc = "dither" =>
          LET x == CellAt(cursor)[1]
              y == CellAt(cursor)[2]
          IN  /\ touched' \subseteq AllowedAt(x, y)
              /\ \A c \in DOMAIN img : img'[c] # img[c] => c \in AllowedAt(x, y)
              /\ \A c \in Visited(cursor) : img'[c] = img[c] ]_vars

C10_Witness ==
    /\ IsDitherRun
    /\ pc = "dither"
    /\ width = 3
    /\ cursor = 1
    /\ touched = { <<0, 0>>, <<1, 0>>, <<0, 1>>, <<1, 1>> }
    /\ img[<<1, 1>>] # decoded[<<1, 1>>]
    /\ img[<<2, 1>>] = decoded[<<2, 1>>]

====
